---- MODULE Spec2Model ----
(***************************************************************************)
(* The export job queue of PawLuxe-Hotel-backend: the export_jobs table,   *)
(* the API handlers that create, cancel and retry jobs (app/api/routes.py) *)
(* and the worker loop that claims and executes them                       *)
(* (app/workers/export_job_worker.py).                                     *)
(*                                                                         *)
(* Time is a clock of whole seconds.  A timestamp column is an integer, or *)
(* Null for SQL NULL; a text column is a string, or NoText for SQL NULL.   *)
(* Every worker runs in its own ORM session: it keeps the row it loaded at *)
(* claim time and, on commit, writes back only the attributes whose value  *)
(* differs from the loaded one (the ORM's unit of work).                   *)
(***************************************************************************)
EXTENDS Integers, Sequences, FiniteSets, TLC

VARIABLES db, wk, now, dialect, once, last, served, manifests, inflight,
          input, args, stage, excerpts,
          candidates, camera_count, bucket_count, selected, remaining,
          media, files, outcome, elapsed

(* The queue: the export_jobs table, the workers, the clock, the           *)
(* responses, the manifest store and the create requests that have passed  *)
(* their dedupe query and not yet inserted their job.                      *)
queueVars == <<db, wk, now, dialect, once, last, served, manifests, inflight>>

(* One planning run: the excerpts handed to the planner's functions, their *)
(* parameters, the step the run is at and the list it holds.               *)
callVars == <<input, args, stage, excerpts>>

(* The locals of the highlight selector's loop. *)
loopVars == <<candidates, camera_count, bucket_count, selected, remaining>>

(* One execution of the export pipeline: the tracks and media segments it  *)
(* reads, the files on disk, its result and the monotonic clock it reads.  *)
execVars == <<media, files, outcome, elapsed>>

planVars == <<callVars, loopVars, execVars>>

vars == <<db, wk, now, dialect, once, last, served, manifests, inflight,
          input, args, stage, excerpts,
          candidates, camera_count, bucket_count, selected, remaining,
          media, files, outcome, elapsed>>

----------------------------------------------------------------------------
(* Bounds of the model. *)

MaxJobs == 1
NumWorkers == 2
MaxTime == 1
MaxExports == 2
MaxRetryCount == 2
MaxRequests == 3

(* Program constants. *)

BackoffCap == 300

Null == 0 - 1
NoText == "null"

Workers == 1 .. NumWorkers

----------------------------------------------------------------------------
(* The export_jobs row. *)

ExportJob(gt, mode, pj, mr, next, canceled, t) ==
    [ status          |-> "pending",
      global_track_id |-> gt,
      mode            |-> mode,
      payload_json    |-> pj,
      retry_count     |-> 0,
      max_retries     |-> mr,
      next_run_at     |-> next,
      canceled_at     |-> canceled,
      export_id       |-> Null,
      manifest_path   |-> Null,
      video_path      |-> Null,
      error_message   |-> NoText,
      created_at      |-> t,
      started_at      |-> Null,
      finished_at     |-> Null ]

NoRow == [ExportJob("", "", <<>>, 0, Null, Null, Null) EXCEPT !.status = "none"]

(* A commit that gives way to a cancel: nothing is written to a row that   *)
(* is canceled by now.                                                     *)
FlushUnlessCanceled(row, loaded, new, fresh) ==
    IF row.status = "canceled" THEN row
    ELSE [f \in DOMAIN row |->
            IF f \in fresh \/ new[f] # loaded[f] THEN new[f] ELSE row[f]]

(* The UPDATE an ORM session emits on commit: an attribute is written when *)
(* the value assigned differs from the one the session loaded.  A column   *)
(* assigned a new reading of the clock (fresh) is always written: utcnow() *)
(* has microsecond resolution, so no two readings are equal.               *)
Flush(row, loaded, new, fresh) ==
    [f \in DOMAIN row |->
        IF f \in fresh \/ new[f] # loaded[f] THEN new[f] ELSE row[f]]

(* mode.strip().lower() *)
NormMode(m) ==
    CASE m = " Full " -> "full"
      [] m = "HIGHLIGHTS" -> "highlights"
      [] OTHER -> m

(* json.dumps(payload.model_dump(exclude={"mode", "dedupe", "max_retries"})) *)
PayloadFields == {"render_video", "timeout_seconds"}

PayloadJson(req) == <<"json", [f \in PayloadFields |-> req[f]]>>

(* json.loads(job.payload_json); a text that is no JSON object has no fields *)
WellFormed(pj) == Len(pj) = 2 /\ pj[1] = "json"

PayloadGet(pj, f, default) ==
    IF f \in DOMAIN pj[2] THEN pj[2][f] ELSE default

----------------------------------------------------------------------------
(* The worker's claim query. *)

Eligible(row, t) ==
    /\ row.status = "pending"
    /\ row.canceled_at = Null
    /\ (row.next_run_at = Null \/ row.next_run_at <= t)

Candidates(t) == {j \in DOMAIN db : Eligible(db[j], t)}

(* A claim query that orders the newest row first. *)
NewestByCreatedAt(S) ==
    {j \in S : \A k \in S : db[j].created_at >= db[k].created_at}

(* ORDER BY created_at ASC LIMIT 1: any of the oldest rows *)
FirstByCreatedAt(S) ==
    {j \in S : \A k \in S : db[j].created_at <= db[k].created_at}

(* status = 'running', started_at = :now, error_message = NULL *)
ClaimedRow(row, t) ==
    [row EXCEPT !.status = "running", !.started_at = t, !.error_message = NoText]

NoResponse == [op |-> "none", code |-> 0, job |-> 0, req |-> <<>>]

Polling == [pc |-> "poll", job |-> Null, row |-> NoRow, at |-> Null]

(* The end of one iteration of run()'s loop. *)
NextIteration(w) ==
    IF once THEN [wk[w] EXCEPT !.pc = "exited", !.row = NoRow, !.at = Null]
    ELSE Polling

(* _claim_next_job on PostgreSQL: one statement selects and updates the row *)
ClaimPg(w) ==
    /\ dialect = "postgresql"
    /\ wk[w].pc = "poll"
    /\ \E j \in FirstByCreatedAt(Candidates(now)) :
         /\ db' = [db EXCEPT ![j] = ClaimedRow(@, now)]
         /\ wk' = [wk EXCEPT ![w] =
                     [pc |-> "running", job |-> j, row |-> db'[j], at |-> now]]
    /\ last' = NoResponse
    /\ UNCHANGED <<now, dialect, once, served, manifests>>
    /\ UNCHANGED planVars
    /\ UNCHANGED inflight

(* _claim_next_job on any other dialect, first half: the SELECT *)
ClaimSelect(w) ==
    /\ dialect # "postgresql"
    /\ wk[w].pc = "poll"
    /\ \E j \in FirstByCreatedAt(Candidates(now)) :
         wk' = [wk EXCEPT ![w] =
                  [pc |-> "selected", job |-> j, row |-> db[j], at |-> now]]
    /\ last' = NoResponse
    /\ UNCHANGED <<db, now, dialect, once, served, manifests>>
    /\ UNCHANGED planVars
    /\ UNCHANGED inflight

(* second half: the attribute writes, commit and refresh *)
ClaimUpdate(w) ==
    /\ wk[w].pc = "selected"
    /\ LET j == wk[w].job
           loaded == wk[w].row
       IN /\ db' = [db EXCEPT ![j] = Flush(@, loaded, ClaimedRow(loaded, wk[w].at), {"started_at"})]
          /\ wk' = [wk EXCEPT ![w] = [@ EXCEPT !.pc = "running", !.row = db'[j]]]
    /\ last' = NoResponse
    /\ UNCHANGED <<now, dialect, once, served, manifests>>
    /\ UNCHANGED planVars
    /\ UNCHANGED inflight

(* _claim_next_job finds no row and returns None *)
ClaimNone(w) ==
    /\ wk[w].pc = "poll"
    /\ Candidates(now) = {}
    /\ wk' = [wk EXCEPT ![w] = [NextIteration(w) EXCEPT !.job = 0]]
    /\ last' = NoResponse
    /\ UNCHANGED <<db, now, dialect, once, served, manifests>>
    /\ UNCHANGED planVars
    /\ UNCHANGED inflight

----------------------------------------------------------------------------
(* Execution of a claimed job and the outcome write of run(). *)

(* The exceptions _process_one raises before save_manifest ... *)
PlanErrors ==
    { "No associations found for global_track_id",
      "export job timeout exceeded",
      "No excerpts available for export" }

PayloadErrors == { "Expecting value: line 1 column 1 (char 0)" }

(* ... and after it, from render_export_video *)
RenderErrors ==
    { "ffmpeg failed", "Command 'ffmpeg' timed out",
      "No valid segment files found to render" }

ExecErrors == PlanErrors \cup PayloadErrors \cup RenderErrors

(* A success that skips the video although rendering was requested. *)
SuccessRowNoVideo(row, eid, t) ==
    [row EXCEPT !.export_id = eid,
                !.manifest_path = eid,
                !.status = "done",
                !.finished_at = t,
                !.next_run_at = Null,
                !.error_message = NoText]

(* An export identifier that is drawn again once the store has a manifest. *)
ReusedExportId == IF manifests = {} THEN 1 ELSE Cardinality(manifests)

(* export_id = str(uuid.uuid4()): an identifier no manifest has yet *)
FreshExportId == Cardinality(manifests) + 1

RenderVideo(row) == PayloadGet(row.payload_json, "render_video", TRUE)

(* A backoff without the cap of five minutes. *)
BackoffUncapped(k) == 2 ^ (k - 1)

(* A retry test that allows one failure too many. *)
MayRetryOnceMore(rc, mr) == rc <= mr + 1

(* min(300, 2 ** (retry_count - 1)) *)
Backoff(k) == IF 2 ^ (k - 1) < BackoffCap THEN 2 ^ (k - 1) ELSE BackoffCap

(* retry_count <= max_retries *)
MayRetry(rc, mr) == rc <= mr

SuccessRow(row, eid, t) ==
    [row EXCEPT !.export_id = eid,
                !.manifest_path = eid,
                !.video_path = IF RenderVideo(row) THEN eid ELSE Null,
                !.status = "done",
                !.finished_at = t,
                !.next_run_at = Null,
                !.error_message = NoText]

FailureRow(row, exc, t) ==
    LET rc == row.retry_count + 1
    IN [row EXCEPT !.retry_count = rc,
                   !.status = IF MayRetry(rc, row.max_retries) THEN "pending" ELSE "failed",
                   !.next_run_at = IF MayRetry(rc, row.max_retries)
                                   THEN t + Backoff(rc) ELSE Null,
                   !.finished_at = t,
                   !.error_message = exc]

RunSuccess(w) ==
    /\ wk[w].pc = "running"
    /\ WellFormed(wk[w].row.payload_json)
    /\ Cardinality(manifests) < MaxExports
    /\ LET j == wk[w].job
           loaded == wk[w].row
           eid == FreshExportId
       IN /\ db' = [db EXCEPT ![j] = Flush(@, loaded, SuccessRow(loaded, eid, now), {"finished_at"})]
          /\ manifests' = manifests \cup {eid}
    /\ wk' = [wk EXCEPT ![w] = NextIteration(w)]
    /\ last' = NoResponse
    /\ UNCHANGED <<now, dialect, once, served>>
    /\ UNCHANGED planVars
    /\ UNCHANGED inflight

RunFailure(w, exc, maxRetryCount) ==
    /\ wk[w].pc = "running"
    /\ wk[w].row.retry_count < maxRetryCount
    /\ LET j == wk[w].job
           loaded == wk[w].row
       IN /\ exc \in PayloadErrors <=> ~WellFormed(loaded.payload_json)
          /\ exc \in RenderErrors => RenderVideo(loaded)
          /\ exc \in RenderErrors => Cardinality(manifests) < MaxExports
          /\ db' = [db EXCEPT ![j] = Flush(@, loaded, FailureRow(loaded, exc, now),
                                          IF FailureRow(loaded, exc, now).status = "pending"
                                          THEN {"finished_at", "next_run_at"}
                                          ELSE {"finished_at"})]
          /\ manifests' = IF exc \in RenderErrors
                          THEN manifests \cup {FreshExportId} ELSE manifests
    /\ wk' = [wk EXCEPT ![w] = NextIteration(w)]
    /\ last' = NoResponse
    /\ UNCHANGED <<now, dialect, once, served>>
    /\ UNCHANGED planVars
    /\ UNCHANGED inflight

----------------------------------------------------------------------------
(* The API handlers. *)

(* The HTTP response of the step just taken; NoResponse after a step that  *)
(* serves no request.                                                      *)
Response(op, code, j) == [op |-> op, code |-> code, job |-> j, req |-> <<>>]

Created(code, j, req) == [op |-> "create", code |-> code, job |-> j, req |-> <<req>>]

(* A dedupe query that forgets the filter on status and cancellation. *)
MatchingAnyStatus(req) ==
    {j \in DOMAIN db :
        /\ db[j].global_track_id = req.global_track_id
        /\ db[j].mode = NormMode(req.mode)
        /\ db[j].payload_json = PayloadJson(req)}

Matching(req) ==
    {j \in DOMAIN db :
        /\ db[j].global_track_id = req.global_track_id
        /\ db[j].mode = NormMode(req.mode)
        /\ db[j].payload_json = PayloadJson(req)
        /\ db[j].status \in {"pending", "running"}
        /\ db[j].canceled_at = Null}

(* ORDER BY created_at DESC LIMIT 1 *)
LastByCreatedAt(S) ==
    {j \in S : \A k \in S : db[j].created_at >= db[k].created_at}

CreateExportJob(req, maxJobs) ==
    /\ served < MaxRequests
    /\ \/ /\ \/ NormMode(req.mode) \notin {"full", "highlights"}
             \/ req.max_retries < 0
          /\ last' = Created(400, 0, req)
          /\ db' = db
       \/ /\ NormMode(req.mode) \in {"full", "highlights"}
          /\ req.max_retries >= 0
          /\ req.dedupe
          /\ \E j \in LastByCreatedAt(Matching(req)) :
               last' = Created(200, j, req)
          /\ db' = db
       \/ /\ NormMode(req.mode) \in {"full", "highlights"}
          /\ req.max_retries >= 0
          /\ ~req.dedupe \/ Matching(req) = {}
          /\ Len(db) < maxJobs
          /\ db' = Append(db, ExportJob(req.global_track_id, NormMode(req.mode),
                                        PayloadJson(req), req.max_retries,
                                        now, Null, now))
          /\ last' = Created(200, Len(db) + 1, req)
    /\ served' = served + 1
    /\ UNCHANGED <<wk, now, dialect, once, manifests>>
    /\ UNCHANGED planVars
    /\ UNCHANGED inflight

(* create_export_job served concurrently with other requests (the handler  *)
(* is a plain def, run on a thread of the server's pool, with a session of *)
(* its own).  First half: the validation and the dedupe query.  A request  *)
(* that finds no active job to return goes on to insert one.               *)
CreateLookup(req) ==
    /\ served < MaxRequests
    /\ \/ /\ \/ NormMode(req.mode) \notin {"full", "highlights"}
             \/ req.max_retries < 0
          /\ last' = Created(400, 0, req)
          /\ inflight' = inflight
       \/ /\ NormMode(req.mode) \in {"full", "highlights"}
          /\ req.max_retries >= 0
          /\ req.dedupe
          /\ \E j \in LastByCreatedAt(Matching(req)) :
               last' = Created(200, j, req)
          /\ inflight' = inflight
       \/ /\ NormMode(req.mode) \in {"full", "highlights"}
          /\ req.max_retries >= 0
          /\ ~req.dedupe \/ Matching(req) = {}
          /\ inflight' = Append(inflight, req)
          /\ last' = NoResponse
    /\ served' = served + 1
    /\ UNCHANGED <<db, wk, now, dialect, once, manifests>>
    /\ UNCHANGED planVars

(* second half: session.add(job), commit, refresh and the response *)
CreateInsert(maxJobs) ==
    /\ Len(db) < maxJobs
    /\ \E i \in DOMAIN inflight :
         LET req == inflight[i]
         IN /\ db' = Append(db, ExportJob(req.global_track_id, NormMode(req.mode),
                                           PayloadJson(req), req.max_retries,
                                           now, Null, now))
            /\ last' = Created(200, Len(db) + 1, req)
            /\ inflight' = [k \in 1 .. Len(inflight) - 1 |->
                               IF k < i THEN inflight[k] ELSE inflight[k + 1]]
    /\ UNCHANGED <<wk, now, dialect, once, served, manifests>>
    /\ UNCHANGED planVars

(* A cancel that leaves the schedule of the job in place. *)
CanceledRowKeepsSchedule(row, t) ==
    [row EXCEPT !.status = "canceled", !.canceled_at = t]

(* A retry that is also accepted from done. *)
RetryableAlsoDone(status) == status \in {"done", "failed", "canceled"}

(* A cancel that is ignored only for a job that is already canceled. *)
CancelIgnoredOnlyCanceled(status) == status = "canceled"

(* A retry that keeps the count of failures. *)
RetriedRowKeepsCount(row, t) ==
    [row EXCEPT !.status = "pending",
                !.error_message = NoText,
                !.started_at = Null,
                !.finished_at = Null,
                !.canceled_at = Null,
                !.next_run_at = t]

(* job.status in {"done", "failed", "canceled"}: cancel returns the job as is *)
CancelIgnored(status) == status \in {"done", "failed", "canceled"}

CanceledRow(row, t) ==
    [row EXCEPT !.status = "canceled", !.canceled_at = t, !.next_run_at = Null]

(* job.status not in {"failed", "canceled"}: retry is refused *)
Retryable(status) == status \in {"failed", "canceled"}

RetriedRow(row, t) ==
    [row EXCEPT !.status = "pending",
                !.error_message = NoText,
                !.started_at = Null,
                !.finished_at = Null,
                !.canceled_at = Null,
                !.next_run_at = t,
                !.retry_count = 0]

CancelExportJob(j) ==
    /\ served < MaxRequests
    /\ \/ /\ j \notin DOMAIN db
          /\ last' = Response("cancel", 404, 0)
          /\ db' = db
       \/ /\ j \in DOMAIN db
          /\ CancelIgnored(db[j].status)
          /\ last' = Response("cancel", 200, j)
          /\ db' = db
       \/ /\ j \in DOMAIN db
          /\ ~CancelIgnored(db[j].status)
          /\ db' = [db EXCEPT ![j] = CanceledRow(@, now)]
          /\ last' = Response("cancel", 200, j)
    /\ served' = served + 1
    /\ UNCHANGED <<wk, now, dialect, once, manifests>>
    /\ UNCHANGED planVars
    /\ UNCHANGED inflight

RetryExportJob(j) ==
    /\ served < MaxRequests
    /\ \/ /\ j \notin DOMAIN db
          /\ last' = Response("retry", 404, 0)
          /\ db' = db
       \/ /\ j \in DOMAIN db
          /\ ~Retryable(db[j].status)
          /\ last' = Response("retry", 400, j)
          /\ db' = db
       \/ /\ j \in DOMAIN db
          /\ Retryable(db[j].status)
          /\ db' = [db EXCEPT ![j] = RetriedRow(@, now)]
          /\ last' = Response("retry", 200, j)
    /\ served' = served + 1
    /\ UNCHANGED <<wk, now, dialect, once, manifests>>
    /\ UNCHANGED planVars
    /\ UNCHANGED inflight

(* The clock. *)
Tick(maxTime) ==
    /\ now < maxTime
    /\ now' = now + 1
    /\ last' = NoResponse
    /\ UNCHANGED <<db, wk, dialect, once, served, manifests>>
    /\ UNCHANGED planVars
    /\ UNCHANGED inflight

----------------------------------------------------------------------------
(* The queue under API traffic and a pool of workers. *)

(* The highlight selector is not running. *)
NoLoop ==
    /\ candidates = <<>>
    /\ camera_count = [k \in {} |-> 0]
    /\ bucket_count = [k \in {} |-> 0]
    /\ selected = <<>>
    /\ remaining = 0

(* The result of one execution: how it ended, the exception it raised, the *)
(* export identifier and video it produced, the render error it caught.    *)
Outcome(status, error, eid, video, render_error) ==
    [status |-> status, error |-> error, export_id |-> eid,
     video_path |-> video, render_error |-> render_error]

(* No execution of the pipeline is in progress. *)
NoExec ==
    /\ media = [tracks |-> <<>>, segments |-> <<>>]
    /\ files = {}
    /\ outcome = Outcome("none", NoText, Null, Null, NoText)
    /\ elapsed = 0

(* No planning run is in progress. *)
NoPlan ==
    /\ NoExec
    /\ input = <<>>
    /\ args = [merge_gap_seconds |-> 0, min_duration_seconds |-> 0,
               target_seconds |-> 0, per_clip_seconds |-> 0]
    /\ stage = "none"
    /\ excerpts = <<>>
    /\ NoLoop

Request(gt, mode, rv, mr, dd) ==
    [global_track_id |-> gt, mode |-> mode, render_video |-> rv,
     timeout_seconds |-> 600, max_retries |-> mr, dedupe |-> dd]

Requests ==
    {Request("gt-1", "full", TRUE, mr, dd) : mr \in {0, 1}, dd \in BOOLEAN}
    \cup {Request("gt-1", "zoom", TRUE, 0, TRUE)}

Errors == {"No associations found for global_track_id", "ffmpeg failed"}

Init ==
    /\ db = <<>>
    /\ wk = [w \in Workers |-> Polling]
    /\ now = 0
    /\ dialect \in {"postgresql", "sqlite"}
    /\ once \in BOOLEAN
    /\ last = NoResponse
    /\ served = 0
    /\ manifests = {}
    /\ inflight = <<>>
    /\ NoPlan

Next ==
    \/ \E req \in Requests : CreateExportJob(req, MaxJobs)
    \/ \E j \in 1 .. MaxJobs : CancelExportJob(j)
    \/ \E j \in 1 .. MaxJobs : RetryExportJob(j)
    \/ \E w \in Workers : ClaimPg(w)
    \/ \E w \in Workers : ClaimSelect(w)
    \/ \E w \in Workers : ClaimUpdate(w)
    \/ \E w \in Workers : ClaimNone(w)
    \/ \E w \in Workers : RunSuccess(w)
    \/ \E w \in Workers, exc \in Errors : RunFailure(w, exc, MaxRetryCount)
    \/ Tick(MaxTime)

Spec == Init /\ [][Next]_vars

----------------------------------------------------------------------------
(* Concurrent claim attempts: workers started with --once against a queue  *)
(* that holds one eligible pending job.                                    *)

RaceWorkers == 1 .. (NumWorkers + 1)

InitClaimRace ==
    /\ \E mr \in {0, 1}, t \in 0 .. MaxTime :
         /\ db = <<ExportJob("gt-1", "full", PayloadJson(Request("gt-1", "full", TRUE, mr, TRUE)),
                             mr, t, Null, t)>>
         /\ now \in t .. MaxTime
    /\ wk = [w \in RaceWorkers |-> Polling]
    /\ dialect \in {"postgresql", "sqlite"}
    /\ once = TRUE
    /\ last = NoResponse
    /\ served = 1
    /\ manifests = {}
    /\ inflight = <<>>
    /\ NoPlan

NextClaimRace ==
    \/ \E w \in RaceWorkers : ClaimPg(w)
    \/ \E w \in RaceWorkers : ClaimSelect(w)
    \/ \E w \in RaceWorkers : ClaimUpdate(w)
    \/ \E w \in RaceWorkers : ClaimNone(w)

SpecClaimRace == InitClaimRace /\ [][NextClaimRace]_vars

----------------------------------------------------------------------------
(* One worker draining a job that keeps failing: the clock runs on to the  *)
(* time the requeued job is due.                                           *)

MaxFailures == 12

BackoffRequests ==
    {Request("gt-1", "full", FALSE, mr, FALSE) : mr \in {0, 3, 11}}

BackoffErrors ==
    {"No associations found for global_track_id", "export job timeout exceeded"}

(* time.sleep(poll_seconds) until the next pending job is due *)
AwaitDue ==
    /\ \E j \in DOMAIN db :
         /\ db[j].status = "pending"
         /\ db[j].next_run_at # Null
         /\ db[j].next_run_at > now
         /\ now' = db[j].next_run_at
    /\ last' = NoResponse
    /\ UNCHANGED <<db, wk, dialect, once, served, manifests>>
    /\ UNCHANGED planVars
    /\ UNCHANGED inflight

InitBackoff ==
    /\ \E req \in BackoffRequests :
         db = <<ExportJob(req.global_track_id, NormMode(req.mode), PayloadJson(req),
                          req.max_retries, 0, Null, 0)>>
    /\ wk = [w \in {1} |-> Polling]
    /\ now = 0
    /\ dialect \in {"postgresql", "sqlite"}
    /\ once \in BOOLEAN
    /\ last = NoResponse
    /\ served = 1
    /\ manifests = {}
    /\ inflight = <<>>
    /\ NoPlan

NextBackoff ==
    \/ ClaimPg(1)
    \/ ClaimSelect(1)
    \/ ClaimUpdate(1)
    \/ ClaimNone(1)
    \/ RunSuccess(1)
    \/ \E exc \in BackoffErrors : RunFailure(1, exc, MaxFailures)
    \/ Tick(MaxTime)
    \/ AwaitDue

SpecBackoff == InitBackoff /\ [][NextBackoff]_vars

----------------------------------------------------------------------------
(* One worker and a queue of several jobs, created by requests that differ *)
(* in track, mode, payload and dedupe.                                     *)

QueueRequests ==
    {Request("gt-1", m, rv, 1, dd) :
        m \in {"full", " Full "}, rv \in BOOLEAN, dd \in BOOLEAN}
    \cup {Request("gt-2", "full", TRUE, 1, TRUE),
          Request("gt-1", "zoom", TRUE, 1, TRUE),
          Request("gt-1", "full", TRUE, -1, TRUE)}

InitQueue ==
    /\ db = <<>>
    /\ wk = [w \in {1} |-> Polling]
    /\ now = 0
    /\ dialect \in {"postgresql", "sqlite"}
    /\ once \in BOOLEAN
    /\ last = NoResponse
    /\ served = 0
    /\ manifests = {}
    /\ inflight = <<>>
    /\ NoPlan

NextQueue ==
    \/ \E req \in QueueRequests : CreateExportJob(req, MaxJobs + 1)
    \/ \E j \in 1 .. MaxJobs + 1 : CancelExportJob(j)
    \/ \E j \in 1 .. MaxJobs + 1 : RetryExportJob(j)
    \/ ClaimPg(1)
    \/ ClaimSelect(1)
    \/ ClaimUpdate(1)
    \/ ClaimNone(1)
    \/ RunSuccess(1)
    \/ \E exc \in Errors : RunFailure(1, exc, MaxRetryCount)
    \/ Tick(MaxTime)

SpecQueue == InitQueue /\ [][NextQueue]_vars

----------------------------------------------------------------------------
(* The planner's functions (app/services/export_service.py).  Timestamps   *)
(* and durations are whole ticks of 50 ms, so that 0.05 s is 1 tick,       *)
(* 0.2 s is 4 ticks and a minute is 1200 ticks; arithmetic is exact.       *)

MaxExcerpts == 3
MaxTick == 3

TicksPerMinute == 1200

Max2(a, b) == IF a >= b THEN a ELSE b

Min2(a, b) == IF a <= b THEN a ELSE b

(* The excerpt build_export_plan emits for the overlap [start, end] of a   *)
(* track window with a segment file (of one camera) that starts at tick 0. *)
ExportExcerpt(camera, path, start, end) ==
    [camera_id |-> camera, segment_id |-> path, segment_path |-> path,
     clip_start_ts |-> start, clip_end_ts |-> end,
     offset_start_sec |-> Max2(start, 0), duration_sec |-> end - start]

(* sorted(excerpts, key=clip_start_ts): stable, equal keys keep their order *)
RECURSIVE InsertByStart(_, _)
InsertByStart(x, sorted) ==
    IF sorted = <<>> THEN <<x>>
    ELSE IF Head(sorted).clip_start_ts <= x.clip_start_ts
         THEN <<Head(sorted)>> \o InsertByStart(x, Tail(sorted))
         ELSE <<x>> \o sorted

RECURSIVE SortByStart(_)
SortByStart(xs) ==
    IF xs = <<>> THEN <<>>
    ELSE InsertByStart(xs[Len(xs)], SortByStart(SubSeq(xs, 1, Len(xs) - 1)))

(* A test of contiguity that leaves out the excerpt starting exactly at    *)
(* the tolerance.                                                          *)
ContiguousStrict(current, nxt, gap) ==
    nxt.clip_start_ts - current.clip_end_ts < gap

(* A flush that forgets the filter. *)
KeepAlways(merged, current, min_dur) == Append(merged, current)

SameSegment(current, nxt) == current.segment_path = nxt.segment_path

Contiguous(current, nxt, gap) ==
    nxt.clip_start_ts - current.clip_end_ts <= gap

(* current.clip_end_ts = max(...); current.duration_sec = max(end - start, 0) *)
Extended(current, nxt) ==
    LET end == Max2(current.clip_end_ts, nxt.clip_end_ts)
    IN [current EXCEPT !.clip_end_ts = end,
                       !.duration_sec = Max2(end - current.clip_start_ts, 0)]

(* if current.duration_sec >= min_dur: merged.append(current) *)
Keep(merged, current, min_dur) ==
    IF current.duration_sec >= min_dur THEN Append(merged, current) ELSE merged

RECURSIVE MergeWalk(_, _, _, _, _)
MergeWalk(rest, current, merged, gap, min_dur) ==
    IF rest = <<>> THEN Keep(merged, current, min_dur)
    ELSE LET nxt == Head(rest)
         IN IF SameSegment(current, nxt) /\ Contiguous(current, nxt, gap)
            THEN MergeWalk(Tail(rest), Extended(current, nxt), merged, gap, min_dur)
            ELSE MergeWalk(Tail(rest), nxt, Keep(merged, current, min_dur),
                           gap, min_dur)

MergeAndFilterExcerpts(xs, merge_gap_seconds, min_duration_seconds) ==
    IF xs = <<>> THEN <<>>
    ELSE LET gap == Max2(merge_gap_seconds, 0)
             min_dur == Max2(min_duration_seconds, 0)
             ordered == SortByStart(xs)
         IN MergeWalk(Tail(ordered), Head(ordered), <<>>, gap, min_dur)

(* The queue stands still during a planning run. *)
QueueIdle ==
    /\ db = <<>>
    /\ wk = [w \in {1} |-> Polling]
    /\ now = 0
    /\ dialect = "sqlite"
    /\ once = TRUE
    /\ last = NoResponse
    /\ served = 0
    /\ manifests = {}
    /\ inflight = <<>>

(* build_export_plan hands the excerpts it emitted to the merger *)
Merge ==
    /\ stage = "emitted"
    /\ excerpts' = MergeAndFilterExcerpts(excerpts, args.merge_gap_seconds,
                                          args.min_duration_seconds)
    /\ stage' = "merged"
    /\ UNCHANGED <<input, args>>
    /\ UNCHANGED loopVars
    /\ UNCHANGED queueVars
    /\ UNCHANGED execVars

(* the merger applied once more, to its own output *)
MergeAgain ==
    /\ stage = "merged"
    /\ excerpts' = MergeAndFilterExcerpts(excerpts, args.merge_gap_seconds,
                                          args.min_duration_seconds)
    /\ stage' = "merged again"
    /\ UNCHANGED <<input, args>>
    /\ UNCHANGED loopVars
    /\ UNCHANGED queueVars
    /\ UNCHANGED execVars

Paths == {"f1", "f2"}

CameraOf(path) == IF path = "f1" THEN "cam-1" ELSE "cam-2"

EmittedExcerpts ==
    {ExportExcerpt(CameraOf(p), p, a, b) :
        p \in Paths, a \in 0 .. MaxTick - 1, b \in 1 .. MaxTick}

EmittedLists ==
    UNION {[1 .. n -> {x \in EmittedExcerpts : x.duration_sec > 0}] :
              n \in 0 .. MaxExcerpts}

(* f1 [0 s, 10 s] and f1 [10.1 s, 15 s] *)
NearContiguousPair ==
    <<ExportExcerpt("cam-1", "f1", 0, 200), ExportExcerpt("cam-1", "f1", 202, 300)>>

MergeArgs(gap, min_dur) ==
    [merge_gap_seconds |-> gap, min_duration_seconds |-> min_dur,
     target_seconds |-> 0, per_clip_seconds |-> 0]

InitMerge ==
    /\ QueueIdle
    /\ \/ /\ input \in EmittedLists
          /\ \E gap \in {0, 1}, min_dur \in {-1, 1, 2} : args = MergeArgs(gap, min_dur)
       \/ /\ input = NearContiguousPair
          /\ \E gap \in {1, 4}, min_dur \in {0, 6} : args = MergeArgs(gap, min_dur)
    /\ stage = "emitted"
    /\ excerpts = input
    /\ NoLoop
    /\ NoExec

NextMerge ==
    \/ Merge
    \/ MergeAgain

SpecMerge == InitMerge /\ [][NextMerge]_vars

----------------------------------------------------------------------------
(* The highlight selector, build_highlight_plan, one iteration of its      *)
(* loop per step.                                                          *)

(* clip_cap = max(per_clip_seconds, 0.1): 0.1 s is 2 ticks *)
MinClipCap == 2

ClipCap == Max2(args.per_clip_seconds, MinClipCap)

(* clip_start_ts.strftime("%Y%m%d%H%M") *)
BucketKey(item) == item.clip_start_ts \div TicksPerMinute

(* A defaultdict(int): a key not yet counted reads 0. *)
Count(d, k) == IF k \in DOMAIN d THEN d[k] ELSE 0

Incremented(d, k) ==
    [x \in DOMAIN d \cup {k} |-> IF x = k THEN Count(d, k) + 1 ELSE d[x]]

(* min(duration, clip_cap) / clip_cap - 0.25 * camera_count                *)
(* - 0.15 * bucket_count, times 20 * clip_cap to stay in whole numbers     *)
Score(item) ==
    20 * Min2(item.duration_sec, ClipCap)
      - ClipCap * ( 5 * Count(camera_count, item.camera_id)
                  + 3 * Count(bucket_count, BucketKey(item)) )

(* A scan that lets a later candidate of equal score win. *)
RECURSIVE BestFromLastWins(_, _)
BestFromLastWins(idx, best_idx) ==
    IF idx > Len(candidates) THEN best_idx
    ELSE IF best_idx = 0 \/ Score(candidates[idx]) >= Score(candidates[best_idx])
         THEN BestFromLastWins(idx + 1, idx)
         ELSE BestFromLastWins(idx + 1, best_idx)

(* A trim that forgets the budget left. *)
TakeWithinCap(item) == Min2(item.duration_sec, ClipCap)

(* The scan for the best candidate: best_idx 0 stands for the start, when  *)
(* best_score = -1e9 is below every score.                                 *)
RECURSIVE BestFrom(_, _)
BestFrom(idx, best_idx) ==
    IF idx > Len(candidates) THEN best_idx
    ELSE IF best_idx = 0 \/ Score(candidates[idx]) > Score(candidates[best_idx])
         THEN BestFrom(idx + 1, idx)
         ELSE BestFrom(idx + 1, best_idx)

(* candidates.pop(best_idx) *)
Popped(xs, i) == SubSeq(xs, 1, i - 1) \o SubSeq(xs, i + 1, Len(xs))

(* take = min(item.duration_sec, clip_cap, remaining) *)
Take(item) == Min2(Min2(item.duration_sec, ClipCap), remaining)

(* A trim that moves the end of the clip and keeps its duration. *)
TrimmedKeepsDuration(item, take) ==
    [item EXCEPT !.clip_end_ts = item.clip_start_ts + take]

Trimmed(item, take) ==
    [item EXCEPT !.clip_end_ts = item.clip_start_ts + take, !.duration_sec = take]

(* the head of build_highlight_plan, up to the loop *)
BeginHighlights ==
    /\ stage = "merged"
    /\ remaining' = Max2(args.target_seconds, 0)
    /\ IF remaining' <= 0 \/ excerpts = <<>>
       THEN /\ excerpts' = <<>>
            /\ stage' = "highlights"
            /\ UNCHANGED <<candidates, camera_count, bucket_count, selected>>
       ELSE /\ candidates' = excerpts
            /\ camera_count' = [k \in {} |-> 0]
            /\ bucket_count' = [k \in {} |-> 0]
            /\ selected' = <<>>
            /\ stage' = "selecting"
            /\ UNCHANGED excerpts
    /\ UNCHANGED <<input, args>>
    /\ UNCHANGED queueVars
    /\ UNCHANGED execVars

(* one iteration of the loop *)
Pick ==
    /\ stage = "selecting"
    /\ candidates # <<>>
    /\ remaining > 0
    /\ LET best_idx == BestFrom(1, 0)
           item == candidates[best_idx]
           take == Take(item)
       IN /\ candidates' = Popped(candidates, best_idx)
          /\ IF take <= 0
             THEN UNCHANGED <<camera_count, bucket_count, selected, remaining>>
             ELSE /\ selected' = Append(selected, Trimmed(item, take))
                  /\ camera_count' = Incremented(camera_count, item.camera_id)
                  /\ bucket_count' = Incremented(bucket_count, BucketKey(item))
                  /\ remaining' = remaining - take
    /\ UNCHANGED callVars
    /\ UNCHANGED queueVars
    /\ UNCHANGED execVars

(* the loop ends: selected.sort(key=clip_start_ts); return selected *)
ReturnHighlights ==
    /\ stage = "selecting"
    /\ candidates = <<>> \/ remaining <= 0
    /\ excerpts' = SortByStart(selected)
    /\ stage' = "highlights"
    /\ UNCHANGED <<input, args>>
    /\ UNCHANGED loopVars
    /\ UNCHANGED queueVars
    /\ UNCHANGED execVars

(* Excerpts of two cameras, in two minutes, of several lengths. *)
PlannedExcerpts ==
    {ExportExcerpt(CameraOf(p), p, a, a + d) :
        p \in Paths, a \in {0, 1, TicksPerMinute}, d \in {1, 3, 5}}

(* The planner returns its excerpts in the order of their start times. *)
PlannedLists ==
    UNION {{xs \in [1 .. n -> PlannedExcerpts] :
               \A i \in 1 .. n - 1 : xs[i].clip_start_ts <= xs[i + 1].clip_start_ts} :
              n \in 0 .. MaxExcerpts}

(* Five excerpts of one camera, each 4 s (80 ticks) or longer. *)
FiveOfOneCamera ==
    [i \in 1 .. 5 |-> ExportExcerpt("cam-1", "f1", 100 * i, 100 * i + 79 + i)]

HighlightArgs(target, per_clip) ==
    [merge_gap_seconds |-> 0, min_duration_seconds |-> 0,
     target_seconds |-> target, per_clip_seconds |-> per_clip]

InitHighlights ==
    /\ QueueIdle
    /\ \/ /\ input \in PlannedLists
          /\ \E target \in {-1, 0, 2, 7}, per_clip \in {0, 3} :
               args = HighlightArgs(target, per_clip)
       \/ /\ input = FiveOfOneCamera
          /\ args = HighlightArgs(240, 80)
    /\ stage = "merged"
    /\ excerpts = input
    /\ NoLoop
    /\ NoExec

NextHighlights ==
    \/ BeginHighlights
    \/ Pick
    \/ ReturnHighlights

SpecHighlights == InitHighlights /\ [][NextHighlights]_vars

----------------------------------------------------------------------------
(* The excerpt planner, build_export_plan, over the tracks of the          *)
(* associations of one global track and the media segments of the cameras, *)
(* followed by the caller's choice of mode.                                *)

TicksPerSecond == 20

Track(camera, start, end) ==
    [camera_id |-> camera, start_ts |-> start, end_ts |-> end]

(* session.get(Track, assoc.track_id) returns None *)
NoTrack == Track("", Null, Null)

MediaSegment(path, start, end) ==
    [segment_id |-> path, camera_id |-> CameraOf(path), path |-> path,
     start_ts |-> start, end_ts |-> end]

(* A window that leaves the padding out. *)
WindowUnpadded(track, pad) ==
    [start |-> track.start_ts, end |-> track.end_ts]

(* window_start = track.start_ts - pad; window_end = track.end_ts + pad *)
Window(track, pad) ==
    [start |-> track.start_ts - pad, end |-> track.end_ts + pad]

(* _overlap: None (the empty tuple here) when the ranges share no time *)
Overlap(a_start, a_end, b_start, b_end) ==
    LET start == Max2(a_start, b_start)
        end == Min2(a_end, b_end)
    IN IF end <= start THEN <<>> ELSE <<start, end>>

(* ORDER BY start_ts, rows of equal start_ts in the order of the table *)
RECURSIVE InsertByStartTs(_, _)
InsertByStartTs(x, sorted) ==
    IF sorted = <<>> THEN <<x>>
    ELSE IF Head(sorted).start_ts <= x.start_ts
         THEN <<Head(sorted)>> \o InsertByStartTs(x, Tail(sorted))
         ELSE <<x>> \o sorted

RECURSIVE SortByStartTs(_)
SortByStartTs(xs) ==
    IF xs = <<>> THEN <<>>
    ELSE InsertByStartTs(xs[Len(xs)], SortByStartTs(SubSeq(xs, 1, Len(xs) - 1)))

(* the query for the segments of the track's camera that meet the window *)
InWindow(segment, track, w) ==
    /\ segment.camera_id = track.camera_id
    /\ segment.end_ts # Null
    /\ segment.start_ts <= w.end
    /\ segment.end_ts >= w.start

SegmentsOf(track, w) ==
    SortByStartTs(SelectSeq(media.segments, LAMBDA segment : InWindow(segment, track, w)))

(* ExportExcerpt(...) as the planner fills it in *)
Excerpt(track, segment, clip_start, clip_end) ==
    [camera_id |-> track.camera_id, segment_id |-> segment.segment_id,
     segment_path |-> segment.path,
     clip_start_ts |-> clip_start, clip_end_ts |-> clip_end,
     offset_start_sec |-> Max2(clip_start - segment.start_ts, 0),
     duration_sec |-> clip_end - clip_start]

(* the loop over the segments of one track *)
RECURSIVE ExcerptsOf(_, _, _)
ExcerptsOf(track, segments, w) ==
    IF segments = <<>> THEN <<>>
    ELSE LET segment == Head(segments)
             overlap == Overlap(w.start, w.end, segment.start_ts, segment.end_ts)
             rest == ExcerptsOf(track, Tail(segments), w)
         IN IF segment.end_ts = Null \/ overlap = <<>> THEN rest
            ELSE IF overlap[2] - overlap[1] <= 0 THEN rest
            ELSE <<Excerpt(track, segment, overlap[1], overlap[2])>> \o rest

(* the loop over the associations *)
RECURSIVE Emitted(_, _)
Emitted(tracks, pad) ==
    IF tracks = <<>> THEN <<>>
    ELSE LET track == Head(tracks)
             rest == Emitted(Tail(tracks), pad)
         IN IF track = NoTrack \/ track.end_ts = Null THEN rest
            ELSE ExcerptsOf(track, SegmentsOf(track, Window(track, pad)),
                            Window(track, pad)) \o rest

(* The result of a call that raised. *)
Raised(msg) == Outcome("raised", msg, Null, Null, NoText)

(* build_export_plan *)
Plan ==
    /\ stage = "called"
    /\ IF media.tracks = <<>>
       THEN /\ stage' = "raised"
            /\ outcome' = Raised("No associations found for global_track_id")
            /\ UNCHANGED <<input, excerpts>>
       ELSE /\ input' = Emitted(media.tracks, Max2(args.padding_seconds, 0))
            /\ excerpts' = MergeAndFilterExcerpts(input', args.merge_gap_seconds,
                                                  args.min_duration_seconds)
            /\ stage' = "planned"
            /\ UNCHANGED outcome
    /\ UNCHANGED <<args, media, files, elapsed>>
    /\ UNCHANGED loopVars
    /\ UNCHANGED queueVars

(* _check_timeout, for the job worker with a budget *)
TimedOut ==
    /\ args.caller = "_process_one"
    /\ args.timeout_seconds > 0
    /\ elapsed > args.timeout_seconds * TicksPerSecond

(* the caller after build_export_plan: the worker checks its budget; in    *)
(* highlights mode the plan goes to the highlight selector                 *)
AfterPlan ==
    /\ stage = "planned"
    /\ IF TimedOut
       THEN /\ stage' = "raised"
            /\ outcome' = Raised("export job timeout exceeded")
       ELSE /\ stage' = IF args.mode = "highlights" THEN "merged" ELSE "full"
            /\ UNCHANGED outcome
    /\ UNCHANGED <<input, args, excerpts, media, files, elapsed>>
    /\ UNCHANGED loopVars
    /\ UNCHANGED queueVars

ExecArgs(caller, mode, padding, gap, min_dur, target, per_clip, render, timeout) ==
    [caller |-> caller, mode |-> mode, padding_seconds |-> padding,
     merge_gap_seconds |-> gap, min_duration_seconds |-> min_dur,
     target_seconds |-> target, per_clip_seconds |-> per_clip,
     render_video |-> render, timeout_seconds |-> timeout,
     ffmpeg_timeout_seconds |-> Null]

(* Tracks of two cameras: finished, of no length, and still in progress. *)
PlanTracks ==
    {Track(c, 1, e) : c \in {"cam-1", "cam-2"}, e \in {Null, 1, 2}} \cup {NoTrack}

(* Segment files: f1 of cam-1, f2 and f3 of cam-2. *)
PlanSegments ==
    {MediaSegment(p, a, b) : p \in {"f1", "f2"}, a \in {0, 2}, b \in {Null, 3}}
    \cup {MediaSegment("f3", 3, 5)}

(* No two rows of media_segments share their file. *)
PlanSegmentLists ==
    UNION {{xs \in [1 .. n -> PlanSegments] :
               \A i, k \in 1 .. n : i # k => xs[i].path # xs[k].path} :
              n \in 0 .. MaxExcerpts}

(* Track [10:00:00, 10:00:20] and segment [09:59:30, 10:00:40] of its      *)
(* camera, in ticks from 09:59:30.                                         *)
ExampleMedia ==
    [tracks |-> <<Track("cam-1", 30 * TicksPerSecond, 50 * TicksPerSecond)>>,
     segments |-> <<MediaSegment("f1", 0, 70 * TicksPerSecond)>>]

InitPlan ==
    /\ QueueIdle
    /\ \/ /\ \E n \in 0 .. 2 : media \in [tracks : [1 .. n -> PlanTracks],
                                          segments : PlanSegmentLists]
          /\ \E mode \in {"full", "highlights"}, padding \in {-1, 0, 1},
                min_dur \in {0, 3} :
               args = ExecArgs("endpoint", mode, padding, 0, min_dur, 4, 3, FALSE, 0)
       \/ /\ media = ExampleMedia
          /\ \E mode \in {"full", "highlights"} :
               args = ExecArgs("endpoint", mode, 5 * TicksPerSecond, 4, 6,
                               30 * TicksPerSecond, 4 * TicksPerSecond, FALSE, 0)
    /\ input = <<>>
    /\ stage = "called"
    /\ excerpts = <<>>
    /\ NoLoop
    /\ files = {}
    /\ outcome = Outcome("none", NoText, Null, Null, NoText)
    /\ elapsed = 0

NextPlan ==
    \/ Plan
    \/ AfterPlan
    \/ BeginHighlights
    \/ Pick
    \/ ReturnHighlights

SpecPlan == InitPlan /\ [][NextPlan]_vars

----------------------------------------------------------------------------
(* One execution of the export pipeline: the plan, the highlight           *)
(* selection, the manifest, the render and the result, as _process_one and *)
(* run() have it for a claimed job and as the two synchronous endpoints    *)
(* have it.  The monotonic clock is read in ticks.                         *)

(* max(timeout_seconds - elapsed, 0.1): 0.1 s is 2 ticks *)
MinFfmpegTimeout == 2

(* A file on disk: an uploaded segment file, the working directory         *)
(* <export_id>_parts, a part file or concat.txt in it, or the video        *)
(* <export_id>.mp4.                                                        *)
File(kind, eid, idx, path) ==
    [kind |-> kind, export_id |-> eid, idx |-> idx, path |-> path]

Upload(path) == File("upload", 0, 0, path)

WorkDir(eid) == File("parts", eid, 0, "")

Part(eid, idx) == File("part", eid, idx, "")

ConcatTxt(eid) == File("concat", eid, 0, "")

Video(eid) == File("video", eid, 0, "")

OnJob == args.caller = "_process_one"

(* the caller after the selection: the worker checks its budget again and  *)
(* refuses an empty plan, the highlights endpoint refuses an empty         *)
(* selection; then save_manifest                                           *)
SaveManifest ==
    /\ stage \in {"full", "highlights"}
    /\ IF TimedOut
       THEN /\ stage' = "raised"
            /\ outcome' = Raised("export job timeout exceeded")
            /\ UNCHANGED manifests
       ELSE IF excerpts = <<>> /\ OnJob
       THEN /\ stage' = "raised"
            /\ outcome' = Raised("No excerpts available for export")
            /\ UNCHANGED manifests
       ELSE IF excerpts = <<>> /\ args.mode = "highlights"
       THEN /\ stage' = "raised"
            /\ outcome' = Raised("No highlight excerpts available")
            /\ UNCHANGED manifests
       ELSE /\ manifests' = manifests \cup {FreshExportId}
            /\ outcome' = Outcome("running", NoText, FreshExportId, Null, NoText)
            /\ stage' = "saved"
    /\ UNCHANGED <<db, wk, now, dialect, once, last, served, inflight>>
    /\ UNCHANGED <<input, args, excerpts, media, files, elapsed>>
    /\ UNCHANGED loopVars

(* render_video of the payload; the highlights endpoint always renders *)
Renders == IF OnJob \/ args.mode = "full" THEN args.render_video ELSE TRUE

(* A budget for ffmpeg without the floor. *)
RemainingUnfloored == args.timeout_seconds * TicksPerSecond - elapsed

(* remaining = max(timeout_seconds - (time.monotonic() - started), 0.1) *)
Remaining ==
    Max2(args.timeout_seconds * TicksPerSecond - elapsed, MinFfmpegTimeout)

FfmpegTimeout ==
    IF OnJob /\ args.timeout_seconds > 0 THEN Remaining ELSE Null

(* the caller decides on the render; render_export_video makes its         *)
(* working directory                                                       *)
BeginRender ==
    /\ stage = "saved"
    /\ IF Renders
       THEN /\ args' = [args EXCEPT !.ffmpeg_timeout_seconds = FfmpegTimeout]
            /\ files' = files \cup {WorkDir(outcome.export_id)}
            /\ stage' = "rendering"
            /\ UNCHANGED outcome
       ELSE /\ stage' = "returned"
            /\ outcome' = [outcome EXCEPT !.status = "returned"]
            /\ UNCHANGED <<args, files>>
    /\ UNCHANGED <<input, excerpts, media, elapsed>>
    /\ UNCHANGED loopVars
    /\ UNCHANGED queueVars

(* The excerpts whose segment file exists. *)
Valid == {i \in DOMAIN excerpts : Upload(excerpts[i].segment_path) \in files}

(* What a call of ffmpeg can raise: RuntimeError on a non-zero exit and,   *)
(* when it runs with a timeout, subprocess.TimeoutExpired.                 *)
ToolErrors ==
    {"ffmpeg failed"}
    \cup (IF args.ffmpeg_timeout_seconds # Null
          THEN {"Command 'ffmpeg' timed out"} ELSE {})

(* the loop over the excerpts: one ffmpeg call per valid excerpt.  A call  *)
(* that fails or is killed may have written its output file by then.       *)
CutParts ==
    /\ stage = "rendering"
    /\ LET eid == outcome.export_id
       IN \/ /\ files' = files \cup {Part(eid, i) : i \in Valid}
             /\ stage' = "cut"
             /\ UNCHANGED outcome
          \/ \E k \in Valid, e \in ToolErrors, left \in BOOLEAN :
               /\ files' = files \cup {Part(eid, i) : i \in {v \in Valid : v < k}}
                                 \cup (IF left THEN {Part(eid, k)} ELSE {})
               /\ outcome' = [outcome EXCEPT !.error = e]
               /\ stage' = "failing"
    /\ UNCHANGED <<input, args, excerpts, media, elapsed>>
    /\ UNCHANGED loopVars
    /\ UNCHANGED queueVars

(* the check for parts, concat.txt and the ffmpeg call that writes the     *)
(* video                                                                   *)
Concat ==
    /\ stage = "cut"
    /\ LET eid == outcome.export_id
           part_paths == {f \in files : f.kind = "part" /\ f.export_id = eid}
       IN IF part_paths = {}
          THEN /\ outcome' = [outcome EXCEPT
                                !.error = "No valid segment files found to render"]
               /\ stage' = "failing"
               /\ UNCHANGED files
          ELSE \/ /\ files' = files \cup {ConcatTxt(eid), Video(eid)}
                  /\ stage' = "rendered"
                  /\ UNCHANGED outcome
               \/ \E e \in ToolErrors, left \in BOOLEAN :
                    /\ files' = files \cup {ConcatTxt(eid)}
                                      \cup (IF left THEN {Video(eid)} ELSE {})
                    /\ outcome' = [outcome EXCEPT !.error = e]
                    /\ stage' = "failing"
    /\ UNCHANGED <<input, args, excerpts, media, elapsed>>
    /\ UNCHANGED loopVars
    /\ UNCHANGED queueVars

(* shutil.rmtree(work_dir, ignore_errors=True) *)
Removed(eid) ==
    {f \in files : ~(f.kind \in {"parts", "part", "concat"} /\ f.export_id = eid)}

(* finally: the working directory is removed; then render_export_video     *)
(* returns the video or lets its exception pass to the caller, where the   *)
(* endpoints catch it as render_error                                      *)
Cleanup ==
    /\ stage \in {"rendered", "failing"}
    /\ files' = Removed(outcome.export_id)
    /\ IF stage = "rendered"
       THEN /\ outcome' = [outcome EXCEPT !.status = "returned",
                                          !.video_path = outcome.export_id]
            /\ stage' = "returned"
       ELSE IF OnJob
       THEN /\ outcome' = [outcome EXCEPT !.status = "raised"]
            /\ stage' = "raised"
       ELSE /\ outcome' = [outcome EXCEPT !.status = "returned",
                                          !.render_error = outcome.error,
                                          !.error = NoText]
            /\ stage' = "returned"
    /\ UNCHANGED <<input, args, excerpts, media, elapsed>>
    /\ UNCHANGED loopVars
    /\ UNCHANGED queueVars

(* run(): the outcome of _process_one written to the job *)
WriteOutcome(w) ==
    /\ OnJob
    /\ wk[w].pc = "running"
    /\ stage \in {"returned", "raised"}
    /\ LET j == wk[w].job
           loaded == wk[w].row
           done == [SuccessRow(loaded, outcome.export_id, now)
                      EXCEPT !.video_path = outcome.video_path]
           failed == FailureRow(loaded, outcome.error, now)
       IN db' = [db EXCEPT ![j] =
                   IF stage = "returned"
                   THEN Flush(@, loaded, done, {"finished_at"})
                   ELSE Flush(@, loaded, failed,
                              IF failed.status = "pending"
                              THEN {"finished_at", "next_run_at"}
                              ELSE {"finished_at"})]
    /\ wk' = [wk EXCEPT ![w] = NextIteration(w)]
    /\ last' = NoResponse
    /\ UNCHANGED <<now, dialect, once, served, manifests, inflight>>
    /\ UNCHANGED planVars

(* time.monotonic() moves on while the execution is under way *)
Elapse ==
    /\ stage \notin {"none", "returned", "raised"}
    /\ elapsed < MaxTick * (TicksPerSecond \div 2)
    /\ elapsed' = elapsed + TicksPerSecond \div 2
    /\ UNCHANGED <<media, files, outcome>>
    /\ UNCHANGED callVars
    /\ UNCHANGED loopVars
    /\ UNCHANGED queueVars

(* One association with a track in progress, with a finished track, two of *)
(* two cameras; none at all.                                               *)
ExecTracks ==
    { <<>>, <<Track("cam-1", 1, Null)>>, <<Track("cam-1", 1, 2)>>,
      <<Track("cam-1", 1, 2), Track("cam-2", 1, 2)>> }

ExecSegments == <<MediaSegment("f1", 0, 3), MediaSegment("f2", 0, 3)>>

(* The job the worker has claimed, and the worker. *)
ClaimedJob(mode, render, timeout, mr) ==
    ClaimedRow(ExportJob("gt-1", mode,
                         PayloadJson([Request("gt-1", mode, render, mr, TRUE)
                                        EXCEPT !.timeout_seconds = timeout]),
                         mr, 0, Null, 0), 0)

InitExecute ==
    /\ \E mode \in {"full", "highlights"}, render \in BOOLEAN,
          timeout \in {0, 1}, target \in {0, 4} :
         \/ /\ args = ExecArgs("_process_one", mode, 0, 0, 0, target, 3, render, timeout)
            /\ \E mr \in {0, 1} : db = <<ClaimedJob(mode, render, timeout, mr)>>
            /\ wk = [w \in {1} |-> [pc |-> "running", job |-> 1, row |-> db[1], at |-> 0]]
            /\ served = 1
         \/ /\ args = ExecArgs("endpoint", mode, 0, 0, 0, target, 3, render, 0)
            /\ timeout = 0
            /\ db = <<>>
            /\ wk = [w \in {1} |-> Polling]
            /\ served = 0
    /\ now = 0
    /\ dialect = "sqlite"
    /\ once = TRUE
    /\ last = NoResponse
    /\ manifests = {}
    /\ inflight = <<>>
    /\ \E tracks \in ExecTracks : media = [tracks |-> tracks, segments |-> ExecSegments]
    /\ files \in {{}, {Upload("f1")}, {Upload("f1"), Upload("f2")}}
    /\ input = <<>>
    /\ stage = "called"
    /\ excerpts = <<>>
    /\ NoLoop
    /\ outcome = Outcome("none", NoText, Null, Null, NoText)
    /\ elapsed = 0

NextExecute ==
    \/ Plan
    \/ AfterPlan
    \/ BeginHighlights
    \/ Pick
    \/ ReturnHighlights
    \/ SaveManifest
    \/ BeginRender
    \/ CutParts
    \/ Concat
    \/ Cleanup
    \/ WriteOutcome(1)
    \/ Elapse

SpecExecute == InitExecute /\ [][NextExecute]_vars

----------------------------------------------------------------------------
(* Properties. *)

Jobs == DOMAIN db

Holding(j) == {w \in DOMAIN wk : wk[w].pc = "running" /\ wk[w].job = j}

(* This step is a write of a worker session that holds job j: the UPDATE   *)
(* of the two-step claim, or the outcome write of run().                   *)
WorkerWrote(j) ==
    \E w \in DOMAIN wk :
        /\ wk[w].job = j
        /\ wk[w].pc \in {"selected", "running"}
        /\ wk'[w].pc # wk[w].pc

(* C1: N >= 2 workers call _claim_next_job while exactly one job is        *)
(* eligible: exactly one call returns the job (and moves it to running),   *)
(* every other call returns None.                                          *)
C1_ClaimExclusivity ==
    LET returned == {w \in DOMAIN wk : wk[w].pc = "running"}
        none == {w \in DOMAIN wk : wk[w].pc = "exited" /\ wk[w].job = 0}
    IN /\ Cardinality(returned) <= 1
       /\ (\A w \in DOMAIN wk : wk[w].pc \in {"running", "exited"}) =>
             /\ Cardinality(returned) = 1
             /\ none = DOMAIN wk \ returned

(* C2: at most one worker is executing a given job, in every reachable     *)
(* state; stated for the deployment whose claim is one atomic statement,   *)
(* where two claims of the same pending row cannot both succeed.           *)
C2_SingleWriterPerJob ==
    dialect = "postgresql" => \A j \in Jobs : Cardinality(Holding(j)) <= 1

(* C3: canceled_at non-null implies status = 'canceled' and next_run_at    *)
(* null, in every reachable state of every job.                            *)
CancelMarkConsistent(row) ==
    row.canceled_at # Null => row.status = "canceled" /\ row.next_run_at = Null

Terminal == {"done", "failed", "canceled"}

RetryStep(j) ==
    /\ db[j].status \in {"failed", "canceled"}
    /\ db'[j].status = "pending"
    /\ last' = Response("retry", 200, j)

FailedRun(w) ==
    /\ wk[w].pc = "running"
    /\ wk'[w].pc # "running"
    /\ db'[wk[w].job].status # "done"

C5_FailureTransition ==
    [][\A w \in DOMAIN wk : FailedRun(w) =>
          LET j == wk[w].job
              row == db'[j]
          IN /\ wk'[w].pc \in {"poll", "exited"}
             /\ row.retry_count = wk[w].row.retry_count + 1
             /\ row.retry_count <= row.max_retries =>
                  row.status = "pending" /\ row.next_run_at # Null
             /\ row.retry_count > row.max_retries =>
                  row.status = "failed" /\ row.next_run_at = Null
             /\ row.finished_at = now
             /\ row.error_message # NoText /\ row.error_message # ""]_vars

C8_ClaimEligibility ==
    [][\A j \in Jobs :
          /\ db[j].status # "running" /\ db'[j].status = "running" =>
                /\ Eligible(db[j], now)
                /\ db'[j] = [db[j] EXCEPT !.status = "running",
                                          !.started_at = now,
                                          !.error_message = NoText]
          /\ (db[j].canceled_at # Null
                \/ (db[j].next_run_at # Null /\ db[j].next_run_at > now)) =>
                (db'[j].status = "running" => db[j].status = "running")]_vars

(* C6: after the k-th consecutive failure (k = the new retry_count,        *)
(* k <= max_retries) next_run_at is the failure time plus                  *)
(* min(300, 2^(k-1)) seconds: 1, 2, 4 seconds for a job with               *)
(* max_retries = 3, which is failed on its 4th failure; the delay never    *)
(* exceeds 300 seconds.                                                    *)
C6_BackoffSchedule ==
    \A j \in Jobs :
        LET row == db[j]
            k == row.retry_count
            delay == row.next_run_at - row.finished_at
        IN /\ row.status = "pending" /\ k > 0 =>
                /\ k <= row.max_retries
                /\ delay = IF k <= 9 THEN 2 ^ (k - 1) ELSE 300
                /\ delay <= 300
           /\ row.status = "pending" /\ k > 0 /\ row.max_retries = 3 =>
                <<k, delay>> \in {<<1, 1>>, <<2, 2>>, <<3, 4>>}
           /\ k > row.max_retries =>
                /\ k = row.max_retries + 1
                /\ row.status = "failed"
                /\ row.next_run_at = Null

(* A job requeued after its 10th failure or later, with the capped delay. *)
C6_CappedDelay ==
    \E j \in Jobs :
        /\ db[j].status = "pending"
        /\ db[j].retry_count >= 10
        /\ db[j].next_run_at = db[j].finished_at + 300

(* C9: when several jobs are eligible at the time the claim query runs,    *)
(* the job it takes has the smallest created_at among the eligible jobs.   *)
Took(w, j) ==
    /\ wk[w].pc = "poll"
    /\ wk'[w].pc \in {"selected", "running"}
    /\ wk'[w].job = j

C9_ClaimOrder ==
    [][\A w \in DOMAIN wk : \A j \in Jobs :
          Took(w, j) =>
             /\ db[j].status = "pending"
             /\ \A k \in Jobs :
                  (/\ db[k].status = "pending"
                   /\ db[k].canceled_at = Null
                   /\ db[k].next_run_at # Null => db[k].next_run_at <= now)
                  => db[j].created_at <= db[k].created_at]_vars

(* A worker holds the older of two jobs while the younger one, created     *)
(* later, is still pending and due.                                        *)
C9_OlderTakenFirst ==
    \E w \in DOMAIN wk : \E j, k \in Jobs :
        /\ wk[w].pc \in {"selected", "running"}
        /\ wk[w].job = j
        /\ db[k].status = "pending"
        /\ db[k].canceled_at = Null
        /\ db[k].next_run_at <= now
        /\ db[j].created_at < db[k].created_at
        /\ wk[w].at >= db[k].created_at

(* C10: a create with dedupe = true, while a job of the same track, mode   *)
(* and serialized payload is pending or running and not canceled, returns  *)
(* such a job and neither inserts nor modifies a row; a create with        *)
(* dedupe = false, or with no such job, inserts a new job that is pending  *)
(* with retry_count 0 and next_run_at = now, and returns it.               *)
SameFingerprint(row, req) ==
    /\ row.global_track_id = req.global_track_id
    /\ row.mode \in {"full", "highlights"}
    /\ (row.mode = "full") = (req.mode \in {"full", " Full "})
    /\ row.payload_json[2].render_video = req.render_video
    /\ row.payload_json[2].timeout_seconds = req.timeout_seconds

Active(row) == row.status \in {"pending", "running"} /\ row.canceled_at = Null

C10_IdempotentEnqueue ==
    [][last'.op = "create" /\ last'.code = 200 =>
          LET req == last'.req[1]
              dup == {j \in Jobs : Active(db[j]) /\ SameFingerprint(db[j], req)}
          IN IF req.dedupe /\ dup # {}
             THEN /\ last'.job \in dup
                  /\ db' = db
             ELSE /\ last'.job = Len(db) + 1
                  /\ Len(db') = Len(db) + 1
                  /\ \A j \in Jobs : db'[j] = db[j]
                  /\ db'[last'.job].status = "pending"
                  /\ db'[last'.job].retry_count = 0
                  /\ db'[last'.job].next_run_at = now
                  /\ SameFingerprint(db'[last'.job], req)]_vars

(* A create with dedupe = true answered with a job that existed before. *)
C10_ReturnedExisting ==
    /\ last.op = "create"
    /\ last.code = 200
    /\ last.req[1].dedupe
    /\ last.job \in Jobs
    /\ Len(db) = 1
    /\ db[last.job].status = "running"

(* C11: a cancel of a pending or running job sets status = 'canceled',     *)
(* canceled_at = now and next_run_at = null and changes nothing else; a    *)
(* cancel of a done, failed or canceled job returns the job and changes no *)
(* field.                                                                  *)
OtherFieldsKept(old, new, changed) ==
    \A f \in DOMAIN old \ changed : new[f] = old[f]

C11_CancelFrame ==
    [][last'.op = "cancel" /\ last'.code = 200 =>
          LET j == last'.job
          IN /\ j \in Jobs
             /\ Len(db') = Len(db)
             /\ \A k \in Jobs \ {j} : db'[k] = db[k]
             /\ wk' = wk /\ manifests' = manifests
             /\ IF db[j].status \in {"pending", "running"}
                THEN /\ db'[j].status = "canceled"
                     /\ db'[j].canceled_at = now
                     /\ db'[j].next_run_at = Null
                     /\ OtherFieldsKept(db[j], db'[j],
                                        {"status", "canceled_at", "next_run_at"})
                ELSE /\ db[j].status \in {"done", "failed", "canceled"}
                     /\ db'[j] = db[j]]_vars

(* A cancel just served on a job that a worker is executing, next to a     *)
(* second job.                                                             *)
C11_CanceledRunningJob ==
    /\ last.op = "cancel"
    /\ last.code = 200
    /\ Len(db) = 2
    /\ db[last.job].status = "canceled"
    /\ db[last.job].started_at # Null
    /\ Holding(last.job) # {}

SucceededRun(w) ==
    /\ wk[w].pc = "running"
    /\ wk'[w].pc # "running"
    /\ manifests' # manifests
    /\ db'[wk[w].job].export_id \in manifests' \ manifests

C13_SuccessOutcome ==
    [][\A w \in DOMAIN wk : SucceededRun(w) =>
          LET j == wk[w].job
              row == db'[j]
          IN /\ row.status = "done"
             /\ row.finished_at = now
             /\ row.next_run_at = Null
             /\ row.error_message = NoText
             /\ row.export_id # Null
             /\ row.manifest_path # Null
             /\ (row.video_path # Null) = row.payload_json[2].render_video
             /\ row.retry_count = db[j].retry_count]_vars

(* C14: a job canceled while a worker is executing it is not interrupted:  *)
(* the cancel leaves the worker as it is, and the worker's outcome write   *)
(* lands afterwards, so that the job's status is the worker's outcome      *)
(* (done, failed, or pending with a next_run_at) and no longer canceled.   *)
C14_CancelDoesNotInterrupt ==
    [][/\ last'.op = "cancel" => wk' = wk
       /\ \A w \in DOMAIN wk :
            LET j == wk[w].job
            IN /\ wk[w].pc = "running"
               /\ wk'[w].pc # "running"
               /\ db[j].status = "canceled"
               => /\ db'[j].status \in {"done", "failed", "pending"}
                  /\ db'[j].status = "pending" => db'[j].next_run_at > now
                  /\ db'[j].finished_at = now
                  /\ db'[j].canceled_at = db[j].canceled_at]_vars

(* The outcome of a worker on a job that was canceled under it: the job is *)
(* done, with the mark of the cancel still on it.                          *)
C14_DoneAfterCancel ==
    \E j \in Jobs :
        /\ db[j].status = "done"
        /\ db[j].canceled_at # Null
        /\ db[j].export_id # Null

(* C15: no two excerpts in the output of the merger that share a source    *)
(* file overlap in time, for every input list, gap >= 0 and                *)
(* min_duration >= 0.                                                      *)
Overlapping(a, b) ==
    /\ a.clip_start_ts < b.clip_end_ts
    /\ b.clip_start_ts < a.clip_end_ts

C15_MergeNonOverlap ==
    stage = "merged" /\ args.merge_gap_seconds >= 0 /\ args.min_duration_seconds >= 0 =>
        \A i, j \in DOMAIN excerpts :
            i < j /\ excerpts[i].segment_path = excerpts[j].segment_path =>
                ~Overlapping(excerpts[i], excerpts[j])

(* C16: every excerpt in the output of the merger has a duration of at     *)
(* least max(min_duration, 0), the duration being the one after merging    *)
(* (clip end - clip start); a single input excerpt shorter than            *)
(* min_duration gives the empty output, and so does the empty input.       *)
C16_MinimumDuration ==
    stage = "merged" =>
        /\ \A i \in DOMAIN excerpts :
              /\ excerpts[i].duration_sec >= args.min_duration_seconds
              /\ excerpts[i].duration_sec >= 0
              /\ excerpts[i].duration_sec =
                    excerpts[i].clip_end_ts - excerpts[i].clip_start_ts
        /\ Len(input) = 1 =>
              IF input[1].duration_sec < args.min_duration_seconds
              THEN excerpts = <<>> ELSE excerpts = input
        /\ input = <<>> => excerpts = <<>>

(* Two excerpts, each too short on its own, merged into one that is kept. *)
C16_KeptAfterMerging ==
    /\ stage = "merged"
    /\ Len(input) = 2
    /\ \A i \in DOMAIN input : input[i].duration_sec < args.min_duration_seconds
    /\ Len(excerpts) = 1
    /\ excerpts[1].duration_sec >= args.min_duration_seconds

(* C17: the merger applied to its own output, with the same parameters,    *)
(* returns a list identical to that output.                                *)
C17_MergeIdempotence ==
    [][stage = "merged" /\ stage' = "merged again" => excerpts' = excerpts]_vars

(* C18: of two excerpts, the one that starts later is merged into the      *)
(* earlier one (one excerpt from the earlier start to the larger end)      *)
(* exactly when both have the same source file and later start - earlier   *)
(* end <= gap; otherwise both remain.  f1 [0 s, 10 s] and f1 [10.1 s,      *)
(* 15 s] become one [0 s, 15 s] with gap 0.2 s and stay two with 0.05 s.   *)
NothingFiltered ==
    \A i \in DOMAIN input : input[i].duration_sec >= args.min_duration_seconds

C18_MergeRule ==
    /\ (stage = "merged" /\ Len(input) = 2 /\ NothingFiltered)
       => LET a == IF input[1].clip_start_ts <= input[2].clip_start_ts
                   THEN input[1] ELSE input[2]
              b == IF input[1].clip_start_ts <= input[2].clip_start_ts
                   THEN input[2] ELSE input[1]
              end == IF a.clip_end_ts >= b.clip_end_ts
                     THEN a.clip_end_ts ELSE b.clip_end_ts
              gap == IF args.merge_gap_seconds >= 0 THEN args.merge_gap_seconds ELSE 0
          IN IF a.segment_path = b.segment_path /\ b.clip_start_ts - a.clip_end_ts <= gap
             THEN /\ Len(excerpts) = 1
                  /\ excerpts[1].segment_path = a.segment_path
                  /\ excerpts[1].clip_start_ts = a.clip_start_ts
                  /\ excerpts[1].clip_end_ts = end
                  /\ excerpts[1].duration_sec = end - a.clip_start_ts
             ELSE excerpts = <<a, b>>
    /\ (stage = "merged" /\ input = NearContiguousPair) =>
          /\ args.merge_gap_seconds = 4 =>
                /\ Len(excerpts) = 1
                /\ excerpts[1].clip_start_ts = 0
                /\ excerpts[1].clip_end_ts = 300
          /\ args.merge_gap_seconds = 1 => excerpts = input

(* The example pair merged into one excerpt [0 s, 15 s] with gap 0.2 s. *)
C18_ExamplePairMerged ==
    /\ stage = "merged"
    /\ input = NearContiguousPair
    /\ args.merge_gap_seconds = 4
    /\ Len(excerpts) = 1
    /\ excerpts[1].duration_sec = 300

(* C19: the durations of the excerpts the highlight selector returns sum   *)
(* to at most max(target_seconds, 0), and the list returned is empty if    *)
(* and only if target_seconds <= 0 or the input list is empty.             *)
RECURSIVE TotalDuration(_)
TotalDuration(xs) ==
    IF xs = <<>> THEN 0 ELSE Head(xs).duration_sec + TotalDuration(Tail(xs))

C19_HighlightBudget ==
    stage = "highlights" =>
        /\ TotalDuration(excerpts) <= (IF args.target_seconds > 0
                                       THEN args.target_seconds ELSE 0)
        /\ (excerpts = <<>>) = (args.target_seconds <= 0 \/ input = <<>>)

(* A reel that uses up its budget: the last pick was cut to what was left, *)
(* below both its own length and the cap.                                  *)
C19_BudgetUsedUp ==
    /\ stage = "highlights"
    /\ Len(excerpts) >= 2
    /\ TotalDuration(excerpts) = args.target_seconds
    /\ \E i \in DOMAIN excerpts :
         /\ excerpts[i].duration_sec < ClipCap
         /\ \A k \in DOMAIN input : excerpts[i].duration_sec < input[k].duration_sec

(* C20: the penalties only order the picks.  Each iteration takes the      *)
(* candidate of the highest score, the first of them in list order, and    *)
(* trims it to min(duration, cap, remaining budget); when the selector     *)
(* returns fewer excerpts than it was given the budget is used up, and 5   *)
(* excerpts of one camera, each at least per_clip_seconds long, with a     *)
(* target of 3 * per_clip_seconds give exactly 3 excerpts.                 *)
Without(xs, i) ==
    [k \in 1 .. Len(xs) - 1 |-> IF k < i THEN xs[k] ELSE xs[k + 1]]

Smallest(S) == CHOOSE x \in S : \A y \in S : x <= y

C20_PenaltiesNeverExclude ==
    [][/\ (stage = "selecting" /\ candidates' # candidates) =>
            \E i \in DOMAIN candidates :
               /\ candidates' = Without(candidates, i)
               /\ \A k \in DOMAIN candidates :
                     Score(candidates[k]) <= Score(candidates[i])
               /\ \A k \in 1 .. i - 1 :
                     Score(candidates[k]) < Score(candidates[i])
               /\ LET take == Smallest({candidates[i].duration_sec, ClipCap, remaining})
                  IN take > 0 =>
                       /\ Len(selected') = Len(selected) + 1
                       /\ selected'[Len(selected')].camera_id = candidates[i].camera_id
                       /\ selected'[Len(selected')].segment_path = candidates[i].segment_path
                       /\ selected'[Len(selected')].clip_start_ts = candidates[i].clip_start_ts
                       /\ selected'[Len(selected')].duration_sec = take
                       /\ remaining' = remaining - take
       /\ (stage = "selecting" /\ stage' = "highlights") =>
            /\ Len(excerpts') < Len(input) =>
                  TotalDuration(excerpts') = args.target_seconds
            /\ input = FiveOfOneCamera => Len(excerpts') = 3]_vars

(* The reel of three excerpts picked from the five of one camera. *)
C20_ThreeOfFive ==
    /\ stage = "highlights"
    /\ input = FiveOfOneCamera
    /\ Len(excerpts) = 3
    /\ \A i \in DOMAIN excerpts : excerpts[i].camera_id = "cam-1"

----------------------------------------------------------------------------
(* C27: once a cancel request has been accepted for a job, and until a     *)
(* retry request is accepted for it, no worker performs a new claim of the *)
(* job.  Only the cancel handler sets canceled_at and only the retry       *)
(* handler clears it, so the mark is set exactly between the two.          *)

Claims(w) == wk[w].pc # "running" /\ wk'[w].pc = "running"

C27_CancelPreventsRuns ==
    [][\A w \in DOMAIN wk :
         Claims(w) => db[wk'[w].job].canceled_at = Null]_vars

(* The same on PostgreSQL alone, where the claim is one statement. *)
C27_CancelPreventsRunsPg ==
    [][\A w \in DOMAIN wk :
         (dialect = "postgresql" /\ Claims(w))
             => db[wk'[w].job].canceled_at = Null]_vars

----------------------------------------------------------------------------
(* C29: in every state of every job, export_id and manifest_path are set   *)
(* if and only if status = 'done'; a job that is pending, running, failed  *)
(* or canceled has export_id, manifest_path and video_path all null.       *)

ResultFieldsTrackSuccess(row) ==
    /\ (row.export_id # Null /\ row.manifest_path # Null) <=> row.status = "done"
    /\ row.status # "done" =>
          /\ row.export_id = Null
          /\ row.manifest_path = Null
          /\ row.video_path = Null

C29_ResultFieldsTrackSuccess ==
    \A j \in DOMAIN db : ResultFieldsTrackSuccess(db[j])

----------------------------------------------------------------------------
EndedRun(w) == wk[w].pc = "running" /\ wk'[w].pc # "running"

(* The row's error_message was written by this step. *)
Wrote(row, before) == row.error_message # before.error_message

----------------------------------------------------------------------------
(* Workers that keep polling (run() without --once) a queue whose jobs are *)
(* created and retried but never canceled.  Every worker goes on with its  *)
(* loop, every execution ends, and the clock reaches the time a requeued   *)
(* job is due.                                                             *)

LiveRequests == {Request("gt-1", "full", FALSE, mr, TRUE) : mr \in {0, 1}}

InitLive ==
    /\ db = <<>>
    /\ wk = [w \in Workers |-> Polling]
    /\ now = 0
    /\ dialect \in {"postgresql", "sqlite"}
    /\ once = FALSE
    /\ last = NoResponse
    /\ served = 0
    /\ manifests = {}
    /\ inflight = <<>>
    /\ NoPlan

WorkerStep(w) ==
    \/ ClaimPg(w)
    \/ ClaimSelect(w)
    \/ ClaimUpdate(w)
    \/ ClaimNone(w)
    \/ RunSuccess(w)
    \/ \E exc \in BackoffErrors : RunFailure(w, exc, MaxFailures)

NextLive ==
    \/ \E req \in LiveRequests : CreateExportJob(req, MaxJobs)
    \/ \E j \in 1 .. MaxJobs : RetryExportJob(j)
    \/ \E w \in Workers : WorkerStep(w)
    \/ AwaitDue

SpecLive ==
    /\ InitLive
    /\ [][NextLive]_vars
    /\ \A w \in Workers : WF_vars(WorkerStep(w))
    /\ WF_vars(AwaitDue)

(* C28: with workers that keep polling, a clock that advances and          *)
(* executions that end, every created job that is never canceled reaches   *)
(* status done or failed, after at most max_retries + 1 executions since   *)
(* its creation or its last retry; no job stays pending or running         *)
(* forever.                                                                *)

(* The failures counted on a job since its creation or last retry: at most *)
(* max_retries + 1, and at most max_retries on a job that is then done.    *)
ExecutionBound(row) ==
    /\ row.retry_count <= row.max_retries + 1
    /\ row.status \in {"pending", "running", "done"} =>
          row.retry_count <= row.max_retries

C28_EventuallyTerminal ==
    \A j \in 1 .. MaxJobs :
        (j \in Jobs) ~> (j \in Jobs /\ db[j].status \in {"done", "failed"})

C28_ExecutionBound ==
    /\ [](\A j \in Jobs : ExecutionBound(db[j]))
    /\ [][\A w \in DOMAIN wk :
            Claims(w) => db[wk'[w].job].status = "pending"]_vars

C28_EventualCompletion ==
    /\ C28_ExecutionBound
    /\ C28_EventuallyTerminal

----------------------------------------------------------------------------
(* Create requests that all ask for dedupe, served concurrently, next to   *)
(* cancel and retry requests and one worker.                               *)

DedupeRequests ==
    {Request("gt-1", m, TRUE, mr, TRUE) : m \in {"full", " Full "}, mr \in {0, 1}}
    \cup {Request("gt-2", "full", TRUE, 0, TRUE),
          Request("gt-1", "zoom", TRUE, 0, TRUE)}

InitDedupe ==
    /\ db = <<>>
    /\ wk = [w \in {1} |-> Polling]
    /\ now = 0
    /\ dialect \in {"postgresql", "sqlite"}
    /\ once \in BOOLEAN
    /\ last = NoResponse
    /\ served = 0
    /\ manifests = {}
    /\ inflight = <<>>
    /\ NoPlan

NextDedupe ==
    \/ \E req \in DedupeRequests : CreateLookup(req)
    \/ CreateInsert(MaxJobs + 1)
    \/ \E j \in 1 .. MaxJobs + 1 : CancelExportJob(j)
    \/ \E j \in 1 .. MaxJobs + 1 : RetryExportJob(j)
    \/ ClaimPg(1)
    \/ ClaimSelect(1)
    \/ ClaimUpdate(1)
    \/ ClaimNone(1)
    \/ RunSuccess(1)
    \/ \E exc \in Errors : RunFailure(1, exc, MaxRetryCount)
    \/ Tick(MaxTime)

SpecDedupe == InitDedupe /\ [][NextDedupe]_vars

(* C26: if every create request uses dedupe = true, then in every state,   *)
(* including those reached by concurrent create requests and by retry of a *)
(* canceled or failed job, at most one job with status pending or running  *)
(* and canceled_at null exists for any (track identity, mode, serialized   *)
(* payload).                                                               *)
C26_DedupeUnderConcurrency ==
    \A j, k \in Jobs :
        (/\ Active(db[j])
         /\ Active(db[k])
         /\ db[j].global_track_id = db[k].global_track_id
         /\ db[j].mode = db[k].mode
         /\ db[j].payload_json = db[k].payload_json)
        => j = k

----------------------------------------------------------------------------
(* C21: for each association whose track has an end timestamp, and each    *)
(* media segment of the track's camera that overlaps the padded window     *)
(* [track.start - padding, track.end + padding] with positive duration,    *)
(* the planner emits one excerpt with clip = window intersect segment,     *)
(* offset = clip.start - segment.start and duration = clip.end -           *)
(* clip.start; tracks without an end timestamp contribute nothing.  Track  *)
(* [10:00:00, 10:00:20], segment [09:59:30, 10:00:40] and padding 5 s give *)
(* exactly one excerpt, with offset 25 s and duration 30 s.  The padding   *)
(* is the request's, taken as 0 when negative.                             *)

Padding == Max2(args.padding_seconds, 0)

ClipStart(t, g) == Max2(t.start_ts - Padding, g.start_ts)

ClipEnd(t, g) == Min2(t.end_ts + Padding, g.end_ts)

(* The associations and segments that are to give an excerpt. *)
Pairs ==
    {p \in (DOMAIN media.tracks) \X (DOMAIN media.segments) :
        LET t == media.tracks[p[1]]
            g == media.segments[p[2]]
        IN /\ t # NoTrack
           /\ t.end_ts # Null
           /\ g.end_ts # Null
           /\ g.camera_id = t.camera_id
           /\ ClipStart(t, g) < ClipEnd(t, g)}

Expected(p) ==
    LET t == media.tracks[p[1]]
        g == media.segments[p[2]]
    IN [camera_id |-> t.camera_id, segment_id |-> g.segment_id,
        segment_path |-> g.path,
        clip_start_ts |-> ClipStart(t, g), clip_end_ts |-> ClipEnd(t, g),
        offset_start_sec |-> ClipStart(t, g) - g.start_ts,
        duration_sec |-> ClipEnd(t, g) - ClipStart(t, g)]

C21_PlannerResult ==
    stage \notin {"called", "raised"} =>
        /\ Len(input) = Cardinality(Pairs)
        /\ \A p \in Pairs :
             Cardinality({k \in DOMAIN input : input[k] = Expected(p)})
               = Cardinality({q \in Pairs : Expected(q) = Expected(p)})
        /\ media = ExampleMedia =>
             /\ Len(input) = 1
             /\ input[1].offset_start_sec = 25 * TicksPerSecond
             /\ input[1].duration_sec = 30 * TicksPerSecond
             /\ stage = "planned" => excerpts = input

(* The example, planned. *)
C21_ExamplePlanned ==
    /\ media = ExampleMedia
    /\ stage = "planned"
    /\ Len(excerpts) = 1
    /\ excerpts[1].camera_id = "cam-1"
    /\ excerpts[1].segment_path = "f1"
    /\ excerpts[1].offset_start_sec = 25 * TicksPerSecond
    /\ excerpts[1].duration_sec = 30 * TicksPerSecond

----------------------------------------------------------------------------
(* C22: every excerpt returned by the planner (after merging and           *)
(* filtering) and every excerpt returned by the highlight selector has     *)
(* duration = clip_end - clip_start, duration > 0 and offset >= 0.         *)

WellFormedExcerpt(x) ==
    /\ x.duration_sec = x.clip_end_ts - x.clip_start_ts
    /\ x.duration_sec > 0
    /\ x.offset_start_sec >= 0

C22_ExcerptInvariant ==
    stage \in {"planned", "full", "merged", "selecting", "highlights"} =>
        \A i \in DOMAIN excerpts : WellFormedExcerpt(excerpts[i])

(* The selector returned an excerpt it cut shorter than anything the       *)
(* planner had emitted, next to one it kept whole.                         *)
C22_TrimmedHighlight ==
    /\ stage = "highlights"
    /\ Len(excerpts) = 2
    /\ \E i \in DOMAIN excerpts :
         \A k \in DOMAIN input : excerpts[i].duration_sec < input[k].duration_sec
    /\ \E i \in DOMAIN excerpts, k \in DOMAIN input :
         excerpts[i].duration_sec = input[k].duration_sec

----------------------------------------------------------------------------
(* C23: whenever planning (and, in highlights mode, the selection) yields  *)
(* zero excerpts, the operation fails before any manifest is written and   *)
(* no render is started: the job as a failed execution under the retry     *)
(* policy, both synchronous endpoints as a failed request.                 *)

PastSelection ==
    stage \in {"saved", "rendering", "cut", "rendered", "failing",
               "returned", "raised"}

RenderStarted == \E f \in files : f.kind \in {"parts", "part", "concat", "video"}

C23_ZeroExcerptsFail ==
    (PastSelection /\ excerpts = <<>> /\ media.tracks # <<>>) =>
        /\ stage = "raised"
        /\ manifests = {}
        /\ ~RenderStarted
        /\ (OnJob /\ wk[1].pc # "running") =>
               /\ db[1].status \in {"pending", "failed"}
               /\ db[1].retry_count = 1

(* The part of C23 that the worker and the highlights endpoint keep. *)
C23_ZeroExcerptsFailElsewhere ==
    (PastSelection /\ excerpts = <<>> /\ media.tracks # <<>>
       /\ (OnJob \/ args.mode = "highlights")) =>
        /\ stage = "raised"
        /\ manifests = {}
        /\ ~RenderStarted
        /\ (OnJob /\ wk[1].pc # "running") =>
               /\ db[1].status \in {"pending", "failed"}
               /\ db[1].retry_count = 1

----------------------------------------------------------------------------
(* C24: when render returns or raises, on every exit path, the working     *)
(* directory <export_id>_parts and its part files no longer exist, and the *)
(* final video file exists only after the success path.                    *)

RenderOver == stage \in {"returned", "raised"} /\ outcome.export_id # Null

TempFiles(eid) ==
    {f \in files : f.kind \in {"parts", "part", "concat"} /\ f.export_id = eid}

C24_RenderCleanup ==
    RenderOver =>
        /\ TempFiles(outcome.export_id) = {}
        /\ (Video(outcome.export_id) \in files) =>
               (outcome.video_path = outcome.export_id)

(* The part of C24 about the working directory alone. *)
C24_TempCleanup == RenderOver => TempFiles(outcome.export_id) = {}

----------------------------------------------------------------------------
(* C25: with timeout_seconds > 0, when the elapsed time exceeds the budget *)
(* as planning finishes or as the selection finishes, the execution fails  *)
(* with a timeout error, no manifest written and no render started; the    *)
(* render is given max(timeout - elapsed, 0.1); a timeout from any step    *)
(* makes the same retry/backoff/fail transition as any failure and the     *)
(* error_message recorded names a timeout.                                 *)

TimeoutErrors == {"export job timeout exceeded", "Command 'ffmpeg' timed out"}

OverBudget ==
    /\ OnJob
    /\ args.timeout_seconds > 0
    /\ elapsed > args.timeout_seconds * TicksPerSecond

C25_TimeoutAtBoundaries ==
    [][ /\ (OverBudget /\ stage \in {"planned", "full", "highlights"}
              /\ stage' # stage) =>
               /\ stage' = "raised"
               /\ outcome'.error = "export job timeout exceeded"
               /\ manifests' = {}
               /\ ~RenderStarted'
        /\ (OnJob /\ args.timeout_seconds > 0 /\ stage = "saved"
              /\ stage' = "rendering") =>
               args'.ffmpeg_timeout_seconds =
                   IF args.timeout_seconds * TicksPerSecond - elapsed > MinFfmpegTimeout
                   THEN args.timeout_seconds * TicksPerSecond - elapsed
                   ELSE MinFfmpegTimeout
        /\ (OnJob /\ stage = "raised" /\ outcome.error \in TimeoutErrors
              /\ wk[1].pc = "running" /\ wk'[1].pc # "running") =>
               LET rc == db[1].retry_count + 1
               IN /\ db'[1].retry_count = rc
                  /\ db'[1].error_message = outcome.error
                  /\ db'[1].finished_at = now
                  /\ IF rc <= db[1].max_retries
                     THEN /\ db'[1].status = "pending"
                          /\ db'[1].next_run_at = now + Backoff(rc)
                     ELSE db'[1].status = "failed" ]_vars

(* A job failed for good on the check after planning, nothing written. *)
C25_TimedOutJob ==
    /\ OnJob
    /\ wk[1].pc # "running"
    /\ db[1].status = "failed"
    /\ db[1].retry_count = 1
    /\ db[1].error_message = "export job timeout exceeded"
    /\ manifests = {}
    /\ ~RenderStarted

(* The render of a job began with the floor as its budget. *)
C25_FlooredBudget ==
    /\ OnJob
    /\ stage = "rendering"
    /\ args.ffmpeg_timeout_seconds = MinFfmpegTimeout
    /\ elapsed > args.timeout_seconds * TicksPerSecond
====
